---------------------------- MODULE Spec2Model ----------------------------
(***************************************************************************)
(* A model of the azurestorage blueprints: the move, delete and download   *)
(* command line programs and the naming / matching helpers they share.     *)
(*                                                                         *)
(* Strings are sequences of one-character strings, so that every string    *)
(* operation of the source (re.search, re.sub, os.path.basename,           *)
(* os.path.normpath, str.strip, f-strings) is computed character by        *)
(* character.  move_file.py calls the helpers of shipyard.files; they are  *)
(* modelled by the textually identical helpers the repository itself       *)
(* carries in upload_file.py / download_file.py.                           *)
(***************************************************************************)
EXTENDS Integers, Sequences, FiniteSets, TLC

VARIABLES
    args,                 \* the parsed command line (argparse namespace) and the program run
    container,            \* the blob container: blob name -> content
    container0,           \* the container as it was when the run started
    local_files,          \* the local working directory: path -> content
    pc,                   \* position of the running program
    file_names,           \* result of find_azure_storage_blob_file_names
    matching_file_names,  \* result of find_matching_files
    index,                \* loop variable of enumerate(matching_file_names, 1)
    dest_copy,            \* copy properties the service holds for the destination blob
    copy_status_data,     \* azure_move_blob's local copy_status_data
    calls,                \* the storage calls issued so far, in order
    exit_code,            \* how the process ended ("RUNNING" while it has not)
    fn_name,              \* enumerate_destination_file_name: argument destination_file_name
    fn_number,            \* enumerate_destination_file_name: argument file_number
    fn_result             \* enumerate_destination_file_name: returned value (<<"?">> before the call)

vars == <<args, container, container0, local_files, pc, file_names,
          matching_file_names, index, dest_copy, copy_status_data, calls,
          exit_code, fn_name, fn_number, fn_result>>

runVars == <<args, container, container0, local_files, pc, file_names,
             matching_file_names, index, dest_copy, copy_status_data, calls,
             exit_code>>

fnVars == <<fn_name, fn_number, fn_result>>

-----------------------------------------------------------------------------
(* Bounds of the model.                                                    *)

\* Largest number of blobs in the container when a run starts.
MaxBlobs == 3
\* Longest file name handed to enumerate_destination_file_name on its own.
MaxLen == 4
\* Largest file_number handed to enumerate_destination_file_name on its own.
MaxNumber == 11

-----------------------------------------------------------------------------
(* Python string primitives.                                               *)

Range(s) == {s[i] : i \in 1..Len(s)}

\* str(n) for a natural number n: its decimal digits.
Digit(d) ==
    CASE d = 0 -> "0" [] d = 1 -> "1" [] d = 2 -> "2" [] d = 3 -> "3"
      [] d = 4 -> "4" [] d = 5 -> "5" [] d = 6 -> "6" [] d = 7 -> "7"
      [] d = 8 -> "8" [] d = 9 -> "9"

RECURSIVE IntToStr(_)
IntToStr(n) ==
    IF n < 10 THEN <<Digit(n)>>
    ELSE IntToStr(n \div 10) \o <<Digit(n % 10)>>

\* s.startswith(p)
StartsWith(s, p) == Len(p) <= Len(s) /\ SubSeq(s, 1, Len(p)) = p

\* s.strip('/')
RECURSIVE LStripSlash(_)
LStripSlash(s) ==
    IF s # <<>> /\ Head(s) = "/" THEN LStripSlash(Tail(s)) ELSE s

RECURSIVE RStripSlash(_)
RStripSlash(s) ==
    IF s # <<>> /\ s[Len(s)] = "/" THEN RStripSlash(SubSeq(s, 1, Len(s) - 1)) ELSE s

StripSlash(s) == RStripSlash(LStripSlash(s))

\* s.split('/'): the components between the slashes, empty ones kept.
RECURSIVE SplitSlash(_)
SplitSlash(s) ==
    IF \A i \in 1..Len(s) : s[i] # "/" THEN <<s>>
    ELSE LET k == CHOOSE i \in 1..Len(s) :
                      s[i] = "/" /\ \A j \in 1..(i - 1) : s[j] # "/"
         IN  <<SubSeq(s, 1, k - 1)>> \o SplitSlash(SubSeq(s, k + 1, Len(s)))

\* '/'.join(comps)
RECURSIVE JoinSlash(_)
JoinSlash(comps) ==
    IF comps = <<>> THEN <<>>
    ELSE IF Len(comps) = 1 THEN comps[1]
    ELSE comps[1] \o <<"/">> \o JoinSlash(Tail(comps))

DotDot == <<".", ".">>

\* The loop of posixpath.normpath over the components of the path.
RECURSIVE NormComps(_, _, _)
NormComps(comps, new_comps, initial_slashes) ==
    IF comps = <<>> THEN new_comps
    ELSE LET comp == Head(comps)
             rest == Tail(comps)
         IN  IF comp = <<>> \/ comp = <<".">>
                 THEN NormComps(rest, new_comps, initial_slashes)
             ELSE IF \/ comp # DotDot
                     \/ (initial_slashes = 0 /\ new_comps = <<>>)
                     \/ (new_comps # <<>> /\ new_comps[Len(new_comps)] = DotDot)
                 THEN NormComps(rest, Append(new_comps, comp), initial_slashes)
             ELSE IF new_comps # <<>>
                 THEN NormComps(rest, SubSeq(new_comps, 1, Len(new_comps) - 1),
                                initial_slashes)
             ELSE NormComps(rest, new_comps, initial_slashes)

\* os.path.normpath (posixpath)
normpath(path) ==
    IF path = <<>> THEN <<".">>
    ELSE LET initial_slashes ==
                 IF ~StartsWith(path, <<"/">>) THEN 0
                 ELSE IF StartsWith(path, <<"/", "/">>)
                         /\ ~StartsWith(path, <<"/", "/", "/">>) THEN 2
                 ELSE 1
             joined == JoinSlash(NormComps(SplitSlash(path), <<>>, initial_slashes))
             result == [i \in 1..initial_slashes |-> "/"] \o joined
         IN  IF result = <<>> THEN <<".">> ELSE result

\* os.path.basename (posixpath): what follows the last '/'.
basename(p) ==
    IF \E i \in 1..Len(p) : p[i] = "/"
        THEN LET k == CHOOSE i \in 1..Len(p) :
                          p[i] = "/" /\ \A j \in (i + 1)..Len(p) : p[j] # "/"
             IN  SubSeq(p, k + 1, Len(p))
        ELSE p

\* re.sub(r'\.', repl, s, count): the dots of s replaced by repl, left to
\* right, at most count of them when count > 0 and all of them when count = 0;
\* done counts the replacements made so far.
RECURSIVE re_sub_dot_from(_, _, _, _)
re_sub_dot_from(repl, s, count, done) ==
    IF s = <<>> THEN <<>>
    ELSE IF Head(s) = "." /\ (count = 0 \/ done < count)
        THEN repl \o re_sub_dot_from(repl, Tail(s), count, done + 1)
        ELSE <<Head(s)>> \o re_sub_dot_from(repl, Tail(s), count, done)

re_sub_dot(repl, s, count) == re_sub_dot_from(repl, s, count, 0)

\* re.search(r'\.', s)
HasDot(s) == \E i \in 1..Len(s) : s[i] = "."

-----------------------------------------------------------------------------
(* Regular expressions.  A pattern is the text of the regular expression;  *)
(* the model covers literals, '.', '^', '$' and backslash escapes, with    *)
(* Python's semantics for each.                                            *)

\* Whether pattern pat from position i on matches s starting at position j.
RECURSIVE MatchAt(_, _, _, _)
MatchAt(pat, i, s, j) ==
    IF i > Len(pat) THEN TRUE
    ELSE IF pat[i] = "^" THEN j = 1 /\ MatchAt(pat, i + 1, s, j)
    ELSE IF pat[i] = "$" THEN j = Len(s) + 1 /\ MatchAt(pat, i + 1, s, j)
    ELSE IF pat[i] = "." THEN j <= Len(s) /\ MatchAt(pat, i + 1, s, j + 1)
    ELSE IF pat[i] = "\\" /\ i < Len(pat)
        THEN j <= Len(s) /\ s[j] = pat[i + 1] /\ MatchAt(pat, i + 2, s, j + 1)
    ELSE j <= Len(s) /\ s[j] = pat[i] /\ MatchAt(pat, i + 1, s, j + 1)

\* re.search(pat, s): a match anywhere in s.
re_search(pat, s) == \E j \in 1..(Len(s) + 1) : MatchAt(pat, 1, s, j)

\* re.fullmatch(pat, s): the whole of s matches.
RECURSIVE FullMatchAt(_, _, _, _)
FullMatchAt(pat, i, s, j) ==
    IF i > Len(pat) THEN j = Len(s) + 1
    ELSE IF pat[i] = "^" THEN j = 1 /\ FullMatchAt(pat, i + 1, s, j)
    ELSE IF pat[i] = "$" THEN j = Len(s) + 1 /\ FullMatchAt(pat, i + 1, s, j)
    ELSE IF pat[i] = "." THEN j <= Len(s) /\ FullMatchAt(pat, i + 1, s, j + 1)
    ELSE IF pat[i] = "\\" /\ i < Len(pat)
        THEN j <= Len(s) /\ s[j] = pat[i + 1] /\ FullMatchAt(pat, i + 2, s, j + 1)
    ELSE j <= Len(s) /\ s[j] = pat[i] /\ FullMatchAt(pat, i + 1, s, j + 1)

-----------------------------------------------------------------------------
(* The naming helpers (upload_file.py; download_file.py holds the same).   *)

extract_file_name_from_source_full_path(source_full_path) ==
    basename(source_full_path)

\* A variant that replaces every dot (re.sub without its count argument).
enumerate_all_dots(destination_file_name, file_number) ==
    IF HasDot(destination_file_name)
        THEN re_sub_dot(<<"_">> \o IntToStr(file_number) \o <<".">>,
                        destination_file_name, 0)
        ELSE destination_file_name \o <<"_">> \o IntToStr(file_number)

enumerate_destination_file_name(destination_file_name, file_number) ==
    IF HasDot(destination_file_name)
        THEN re_sub_dot(<<"_">> \o IntToStr(file_number) \o <<".">>,
                        destination_file_name, 1)
        ELSE destination_file_name \o <<"_">> \o IntToStr(file_number)

\* file_number is 0 for Python's None: both are falsy, and no caller passes 0.
\* destination_file_name is <<>> for None: None and '' are both falsy.
determine_destination_file_name(source_full_path, destination_file_name, file_number) ==
    IF destination_file_name # <<>>
        THEN IF file_number # 0
                 THEN enumerate_destination_file_name(destination_file_name, file_number)
                 ELSE destination_file_name
        ELSE extract_file_name_from_source_full_path(source_full_path)

clean_folder_name(folder_name) ==
    LET stripped == StripSlash(folder_name)
    IN  IF stripped # <<>> THEN normpath(stripped) ELSE stripped

combine_folder_and_file_name(folder_name, file_name) ==
    normpath(normpath(folder_name
                      \o (IF folder_name # <<>> THEN <<"/">> ELSE <<>>)
                      \o file_name))

determine_destination_full_path(destination_folder_name, destination_file_name, source_full_path, file_number) ==
    combine_folder_and_file_name(
        destination_folder_name,
        determine_destination_file_name(source_full_path, destination_file_name,
                                        file_number))

-----------------------------------------------------------------------------
(* enumerate_destination_file_name on its own: every name over a small     *)
(* alphabet, every file number up to MaxNumber.                            *)

NameAlphabet == {"a", ".", "_"}

NamesUpTo(n) == UNION {[1..k -> NameAlphabet] : k \in 0..n}

NotCalled == <<"?">>

RunIdle ==
    /\ args = [program |-> "none"]
    /\ container = <<>>
    /\ container0 = <<>>
    /\ local_files = <<>>
    /\ pc = "idle"
    /\ file_names = <<>>
    /\ matching_file_names = <<>>
    /\ index = 0
    /\ dest_copy = [status |-> "none"]
    /\ copy_status_data = [status |-> "none"]
    /\ calls = <<>>
    /\ exit_code = "RUNNING"

InitEnumerate ==
    /\ RunIdle
    /\ fn_name \in NamesUpTo(MaxLen)
    /\ fn_number \in 1..MaxNumber
    /\ fn_result = NotCalled

CallEnumerate ==
    /\ fn_result = NotCalled
    /\ fn_result' = enumerate_destination_file_name(fn_name, fn_number)
    /\ UNCHANGED <<fn_name, fn_number>>
    /\ UNCHANGED runVars

NextEnumerate == CallEnumerate

SpecEnumerate == InitEnumerate /\ [][NextEnumerate]_vars

-----------------------------------------------------------------------------
(* The storage account and the command lines of the runs.                  *)

\* Blob names the container may hold when a run starts.
BlobA    == <<"a", ".", "c">>
BlobA1   == <<"a", "_", "1", ".", "c">>
BlobXA   == <<"x", "/", "a", ".", "c">>
BlobXB   == <<"x", "/", "b">>
BlobYA   == <<"y", "/", "a", ".", "c">>

BlobUniverse == {BlobA, BlobA1, BlobXA, BlobXB, BlobYA}

\* Values of --source-file-name: a regular expression under regex_match, a
\* file name under exact_match.
SourceFileNames == {<<"a">>, <<"b", "$">>, <<"q">>, <<"a", ".", "c">>}

\* Values of --source-folder-name.
SourceFolderNames == {<<>>, <<"x">>}

\* Values of --destination-folder-name.
DestinationFolderNames == {<<>>, <<"x">>, <<"/", "z", "/">>}

\* Values of --destination-file-name; <<>> is the default None.
DestinationFileNames == {<<>>, <<"o", ".", "c">>}

\* --connection-string: one the SDK can parse, and one it cannot.
ConnectionStrings == {"valid", "malformed"}

\* os.getcwd() of the download program.
Cwd == <<"/", "w">>

\* Content of a destination blob whose copy has not completed, and of a blob
\* or file that was created and then left without data.
Partial == <<"#">>
Empty   == <<>>

\* The process exit codes move_file.py passes to sys.exit.  It imports them
\* from exit_codes; each is kept as a symbol of its own.
EXIT_CODE_NO_MATCHES_FOUND      == "NO_MATCHES_FOUND"
EXIT_CODE_INCORRECT_CREDENTIALS == "INCORRECT_CREDENTIALS"
EXIT_CODE_AZURE_MOVE_ERROR      == "AZURE_MOVE_ERROR"
\* sys.exit() without argument, or main() returning: exit status 0.
EXIT_SUCCESS                    == "SUCCESS"
\* An exception no handler catches: traceback, exit status 1.
UNCAUGHT_EXCEPTION              == "UNCAUGHT_EXCEPTION"

\* Code points of the characters blob names are made of.
Ord(c) ==
    CASE c = "#" -> 35 [] c = "$" -> 36 [] c = "." -> 46 [] c = "/" -> 47
      [] c = "0" -> 48 [] c = "1" -> 49 [] c = "2" -> 50 [] c = "3" -> 51
      [] c = "4" -> 52 [] c = "5" -> 53 [] c = "6" -> 54 [] c = "7" -> 55
      [] c = "8" -> 56 [] c = "9" -> 57 [] c = "?" -> 63 [] c = "_" -> 95
      [] c = "a" -> 97 [] c = "b" -> 98 [] c = "c" -> 99 [] c = "o" -> 111
      [] c = "q" -> 113 [] c = "w" -> 119 [] c = "x" -> 120 [] c = "y" -> 121
      [] c = "z" -> 122

\* s < t in the lexicographic order of the code points.
RECURSIVE LexLess(_, _)
LexLess(s, t) ==
    IF t = <<>> THEN FALSE
    ELSE IF s = <<>> THEN TRUE
    ELSE IF Head(s) # Head(t) THEN Ord(Head(s)) < Ord(Head(t))
    ELSE LexLess(Tail(s), Tail(t))

\* The names of a set as a sequence in lexicographic order.
RECURSIVE SortedNames(_)
SortedNames(S) ==
    IF S = {} THEN <<>>
    ELSE LET m == CHOOSE x \in S : \A y \in S \ {x} : LexLess(x, y)
         IN  <<m>> \o SortedNames(S \ {m})

\* container.list_blobs(prefix=prefix): the blobs whose name starts with the
\* prefix, in the service's (lexicographic) order.
list_blobs(blobs, prefix) ==
    SortedNames({n \in DOMAIN blobs : StartsWith(n, prefix)})

\* A container (or directory) with name n holding content v, and without n.
Put(blobs, n, v) ==
    [m \in (DOMAIN blobs) \cup {n} |-> IF m = n THEN v ELSE blobs[m]]

Remove(blobs, n) == [m \in (DOMAIN blobs) \ {n} |-> blobs[m]]

NoBlobs == [m \in {} |-> Empty]

-----------------------------------------------------------------------------
(* find_matching_files (move_file.py, download_file.py) and                *)
(* azure_find_matching_files (delete_file.py): the same loop.              *)

\* A variant that keeps only the names the pattern matches as a whole.
RECURSIVE find_fullmatching_files(_, _)
find_fullmatching_files(file_blobs, file_name_re) ==
    IF file_blobs = <<>> THEN <<>>
    ELSE (IF FullMatchAt(file_name_re, 1, Head(file_blobs), 1)
              THEN <<Head(file_blobs)>> ELSE <<>>)
         \o find_fullmatching_files(Tail(file_blobs), file_name_re)

RECURSIVE find_matching_files_loop(_, _, _)
find_matching_files_loop(file_blobs, file_name_re, matching) ==
    IF file_blobs = <<>> THEN matching
    ELSE find_matching_files_loop(
             Tail(file_blobs), file_name_re,
             IF re_search(file_name_re, Head(file_blobs))
                 THEN Append(matching, Head(file_blobs))
                 ELSE matching)

find_matching_files(file_blobs, file_name_re) ==
    find_matching_files_loop(file_blobs, file_name_re, <<>>)

-----------------------------------------------------------------------------
(* What main() computes from the command line before it touches storage.   *)

IsRegex == args.source_file_name_match_type = "regex_match"

\* move_file.py passes the source folder as given; delete_file.py and
\* download_file.py clean it first.
SourceFolder ==
    IF args.program = "move" THEN args.source_folder_name
    ELSE clean_folder_name(args.source_folder_name)

SourceFullPath ==
    combine_folder_and_file_name(SourceFolder, args.source_file_name)

DestinationFolder == clean_folder_name(args.destination_folder_name)

\* The blob the current call works on.
CurrentSource ==
    IF IsRegex THEN matching_file_names[index] ELSE SourceFullPath

\* move_file.py, regex_match: the destination of the blob at position i.
MoveRegexDestination(key_name, i) ==
    determine_destination_full_path(
        DestinationFolder,
        determine_destination_file_name(key_name, <<>>, 0),
        key_name, i)

\* move_file.py, exact_match.
MoveExactDestination ==
    determine_destination_full_path(
        DestinationFolder, args.destination_file_name, SourceFullPath, 0)

MoveDestination ==
    IF IsRegex THEN MoveRegexDestination(CurrentSource, index)
    ELSE MoveExactDestination

\* download_file.py: determine_destination_name, which is
\* determine_destination_full_path under another name.  Its loop counts from
\* 0 and passes index + 1; the model's index is that 1-based number.
determine_destination_name(destination_folder_name, destination_file_name, source_full_path, file_number) ==
    combine_folder_and_file_name(
        destination_folder_name,
        determine_destination_file_name(source_full_path, destination_file_name,
                                        file_number))

DownloadDestination ==
    IF IsRegex
        THEN determine_destination_name(DestinationFolder,
                 args.destination_file_name, CurrentSource, index)
        ELSE determine_destination_name(DestinationFolder,
                 args.destination_file_name, SourceFullPath, 0)

\* download_azure_storage_blob_file: local_path
LocalPath(destination_file_name) ==
    normpath(Cwd \o <<"/">> \o destination_file_name)

ClientConstructs == args.connection_string = "valid"

-----------------------------------------------------------------------------
(* The runs.                                                               *)

NoCopy == [status |-> "none"]

FnIdle ==
    /\ fn_name = <<>>
    /\ fn_number = 0
    /\ fn_result = NotCalled

Init ==
    /\ args \in
         [program : {"move", "download"},
          source_file_name_match_type : {"exact_match", "regex_match"},
          source_folder_name : SourceFolderNames,
          source_file_name : SourceFileNames,
          destination_folder_name : DestinationFolderNames,
          destination_file_name : DestinationFileNames,
          connection_string : ConnectionStrings]
         \cup
         [program : {"delete"},
          source_file_name_match_type : {"exact_match", "regex_match"},
          source_folder_name : SourceFolderNames,
          source_file_name : SourceFileNames,
          destination_folder_name : {<<>>},
          destination_file_name : {<<>>},
          connection_string : ConnectionStrings]
    /\ \E S \in SUBSET BlobUniverse :
           /\ Cardinality(S) <= MaxBlobs
           /\ container = [n \in S |-> n]
    /\ container0 = container
    /\ local_files = NoBlobs
    /\ pc = "start"
    /\ file_names = <<>>
    /\ matching_file_names = <<>>
    /\ index = 0
    /\ dest_copy = NoCopy
    /\ copy_status_data = NoCopy
    /\ calls = <<>>
    /\ exit_code = "RUNNING"
    /\ FnIdle

\* One storage call, as issued: the operation, the position in the batch of
\* the blob it is for (0 under exact_match), the names and how it ended.
Call(op, src, dst, result) ==
    [op |-> op, idx |-> index, src |-> src, dst |-> dst, result |-> result]

\* The process ends with this code.
Exit(code) ==
    /\ pc' = "done"
    /\ exit_code' = code

\* The for loop takes its next element, or main() returns.
LoopNext(body) ==
    IF IsRegex /\ index < Len(matching_file_names)
        THEN /\ index' = index + 1
             /\ pc' = body
             /\ UNCHANGED exit_code
        ELSE /\ Exit(EXIT_SUCCESS)
             /\ UNCHANGED index

\* find_azure_storage_blob_file_names followed by the matching: common to the
\* three programs.  The listing raises when the client cannot be built or the
\* service call fails.
ListAndMatch(listed) ==
    /\ ClientConstructs /\ listed
    /\ file_names' = list_blobs(container, SourceFolder)
    /\ matching_file_names' = find_matching_files(file_names', args.source_file_name)

ListingRaises(listed) ==
    /\ ~(ClientConstructs /\ listed)
    /\ Exit(UNCAUGHT_EXCEPTION)
    /\ UNCHANGED <<file_names, matching_file_names, index>>

(* ---- move_file.py ---- *)

\* A variant of the zero-match test that never fires.
NoMatchesNever(matching) == FALSE

\* len(matching_file_names) == 0
NoMatches(matching) == Len(matching) = 0

\* main(), regex_match, up to the loop.
MoveRegexMain ==
    /\ pc = "start" /\ args.program = "move" /\ IsRegex
    /\ \E listed \in BOOLEAN :
           \/ ListingRaises(listed)
           \/ /\ ListAndMatch(listed)
              /\ IF NoMatches(matching_file_names')
                     THEN /\ Exit(EXIT_CODE_NO_MATCHES_FOUND)
                          /\ UNCHANGED index
                     ELSE \* a for loop over no element runs no iteration
                          /\ index' = 1
                          /\ pc' = IF Len(matching_file_names') = 0
                                       THEN "returned" ELSE "move_blob"
                          /\ UNCHANGED exit_code
    /\ UNCHANGED <<args, container, container0, local_files, dest_copy,
                   copy_status_data, calls>>
    /\ UNCHANGED fnVars

\* main(), exact_match, up to the call of azure_move_blob.
MoveExactMain ==
    /\ pc = "start" /\ args.program = "move" /\ ~IsRegex
    /\ pc' = "move_blob"
    /\ UNCHANGED <<args, container, container0, local_files, file_names,
                   matching_file_names, index, dest_copy, copy_status_data,
                   calls, exit_code>>
    /\ UNCHANGED fnVars

\* How start_copy_from_url(requires_sync=True) can end: it raises when the
\* source does not exist (or the request fails); a copy of a blob onto itself
\* completes at once.
CopyOutcomes(src, dst) ==
    IF src \notin DOMAIN container THEN {"raise"}
    ELSE IF src = dst THEN {"success", "raise"}
    ELSE {"success", "pending", "failed", "raise"}

\* azure_move_blob: the client, then start_copy_from_url.
MoveStartCopy ==
    /\ pc = "move_blob"
    /\ LET src == CurrentSource
           dst == MoveDestination
       IN  IF ~ClientConstructs
               THEN /\ Exit(EXIT_CODE_INCORRECT_CREDENTIALS)
                    /\ UNCHANGED <<container, dest_copy, calls>>
               ELSE \E outcome \in CopyOutcomes(src, dst) :
                      /\ calls' = Append(calls, Call("copy", src, dst, outcome))
                      /\ IF outcome = "raise"
                             THEN /\ Exit(UNCAUGHT_EXCEPTION)
                                  /\ UNCHANGED <<container, dest_copy>>
                             ELSE /\ pc' = "copy_started"
                                  /\ dest_copy' = [status |-> outcome]
                                  /\ container' =
                                       IF outcome = "success"
                                           THEN Put(container, dst, container[src])
                                           ELSE Put(container, dst, Partial)
                                  /\ UNCHANGED exit_code
    /\ UNCHANGED <<args, container0, local_files, file_names,
                   matching_file_names, index, copy_status_data>>
    /\ UNCHANGED fnVars

\* azure_move_blob: destination_blob.get_blob_properties().copy
MoveReadStatus ==
    /\ pc = "copy_started"
    /\ \E read \in BOOLEAN :
           IF read
               THEN /\ copy_status_data' = dest_copy
                    /\ calls' = Append(calls, Call("status", CurrentSource,
                                                   MoveDestination, dest_copy.status))
                    /\ pc' = "status_read"
                    /\ UNCHANGED exit_code
               ELSE /\ calls' = Append(calls, Call("status", CurrentSource,
                                                   MoveDestination, "raise"))
                    /\ Exit(UNCAUGHT_EXCEPTION)
                    /\ UNCHANGED copy_status_data
    /\ UNCHANGED <<args, container, container0, local_files, file_names,
                   matching_file_names, index, dest_copy>>
    /\ UNCHANGED fnVars

\* A variant of the status test that takes every status for a success.
CopyNeverFailed(status) == FALSE

\* copy_status_data.status != "success"
CopyFailed(status) == status # "success"

\* A variant of the failure branch that returns to the caller instead of
\* ending the process.
AbortThenReturn(aborted) ==
    [pc |-> "returned", exit_code |-> "RUNNING"]

\* The failure branch after abort_copy: sys.exit(EXIT_CODE_AZURE_MOVE_ERROR),
\* unless abort_copy itself raised.
AbortThenExit(aborted) ==
    IF aborted
        THEN [pc |-> "done", exit_code |-> EXIT_CODE_AZURE_MOVE_ERROR]
        ELSE [pc |-> "done", exit_code |-> UNCAUGHT_EXCEPTION]

\* azure_move_blob: the copy did not succeed: abort_copy and exit.  An aborted
\* copy leaves the destination blob empty.
MoveAbortCopy ==
    /\ pc = "status_read"
    /\ CopyFailed(copy_status_data.status)
    /\ \E aborted \in BOOLEAN :
           /\ calls' = Append(calls, Call("abort", CurrentSource, MoveDestination,
                                          IF aborted THEN "ok" ELSE "raise"))
           /\ container' = IF aborted
                               THEN Put(container, MoveDestination, Empty)
                               ELSE container
           /\ pc' = AbortThenExit(aborted).pc
           /\ exit_code' = AbortThenExit(aborted).exit_code
    /\ UNCHANGED <<args, container0, local_files, file_names,
                   matching_file_names, index, dest_copy, copy_status_data>>
    /\ UNCHANGED fnVars

\* A variant in which an exception of delete_blob is caught and dropped, so
\* that azure_move_blob returns as after a delete.
DeleteThenSwallow(deleted) ==
    [pc |-> "returned", exit_code |-> "RUNNING"]

\* After delete_blob: azure_move_blob returns, or the exception delete_blob
\* raised leaves azure_move_blob and main(), which have no handler for it.
DeleteThenReturn(deleted) ==
    IF deleted
        THEN [pc |-> "returned", exit_code |-> "RUNNING"]
        ELSE [pc |-> "done", exit_code |-> UNCAUGHT_EXCEPTION]

\* azure_move_blob: the copy succeeded: source_blob.delete_blob()
MoveDeleteSource ==
    /\ pc = "status_read"
    /\ ~CopyFailed(copy_status_data.status)
    /\ \E deleted \in BOOLEAN :
           /\ calls' = Append(calls, Call("delete", CurrentSource, MoveDestination,
                                          IF deleted THEN "ok" ELSE "raise"))
           /\ container' = IF deleted
                               THEN Remove(container, CurrentSource)
                               ELSE container
           /\ pc' = DeleteThenReturn(deleted).pc
           /\ exit_code' = DeleteThenReturn(deleted).exit_code
    /\ UNCHANGED <<args, container0, local_files, file_names,
                   matching_file_names, index, dest_copy, copy_status_data>>
    /\ UNCHANGED fnVars

\* azure_move_blob returned: the next blob of the batch, or the end of main().
MoveReturn ==
    /\ pc = "returned"
    /\ LoopNext("move_blob")
    /\ dest_copy' = NoCopy
    /\ copy_status_data' = NoCopy
    /\ UNCHANGED <<args, container, container0, local_files, file_names,
                   matching_file_names, calls>>
    /\ UNCHANGED fnVars

(* ---- delete_file.py ---- *)

\* main(), regex_match, up to the loop: no match ends in sys.exit().
DeleteRegexMain ==
    /\ pc = "start" /\ args.program = "delete" /\ IsRegex
    /\ \E listed \in BOOLEAN :
           \/ ListingRaises(listed)
           \/ /\ ListAndMatch(listed)
              /\ IF Len(matching_file_names') = 0
                     THEN /\ Exit(EXIT_SUCCESS)
                          /\ UNCHANGED index
                     ELSE /\ index' = 1
                          /\ pc' = "delete_blob"
                          /\ UNCHANGED exit_code
    /\ UNCHANGED <<args, container, container0, local_files, dest_copy,
                   copy_status_data, calls>>
    /\ UNCHANGED fnVars

\* main(), exact_match, up to the call of delete_azure_storage_blob_file.
DeleteExactMain ==
    /\ pc = "start" /\ args.program = "delete" /\ ~IsRegex
    /\ pc' = "delete_blob"
    /\ UNCHANGED <<args, container, container0, local_files, file_names,
                   matching_file_names, index, dest_copy, copy_status_data,
                   calls, exit_code>>
    /\ UNCHANGED fnVars

\* delete_azure_storage_blob_file, and the loop's step to the next blob.
\* delete_blob raises when the blob does not exist (or the request fails).
DeleteBlob ==
    /\ pc = "delete_blob"
    /\ IF ~ClientConstructs
           THEN /\ Exit(UNCAUGHT_EXCEPTION)
                /\ UNCHANGED <<container, calls, index>>
           ELSE \E deleted \in BOOLEAN :
                  /\ deleted => CurrentSource \in DOMAIN container
                  /\ calls' = Append(calls, Call("delete", CurrentSource, <<>>,
                                                 IF deleted THEN "ok" ELSE "raise"))
                  /\ IF deleted
                         THEN /\ container' = Remove(container, CurrentSource)
                              /\ LoopNext("delete_blob")
                         ELSE /\ Exit(UNCAUGHT_EXCEPTION)
                              /\ UNCHANGED <<container, index>>
    /\ UNCHANGED <<args, container0, local_files, file_names,
                   matching_file_names, dest_copy, copy_status_data>>
    /\ UNCHANGED fnVars

(* ---- download_file.py ---- *)

\* main(), regex_match, up to the loop: no match is a loop of no iterations.
DownloadRegexMain ==
    /\ pc = "start" /\ args.program = "download" /\ IsRegex
    /\ \E listed \in BOOLEAN :
           \/ ListingRaises(listed)
           \/ /\ ListAndMatch(listed)
              /\ IF Len(matching_file_names') = 0
                     THEN /\ Exit(EXIT_SUCCESS)
                          /\ UNCHANGED index
                     ELSE /\ index' = 1
                          /\ pc' = "download_blob"
                          /\ UNCHANGED exit_code
    /\ UNCHANGED <<args, container, container0, local_files, dest_copy,
                   copy_status_data, calls>>
    /\ UNCHANGED fnVars

\* main(), exact_match, up to the call of download_azure_storage_blob_file.
DownloadExactMain ==
    /\ pc = "start" /\ args.program = "download" /\ ~IsRegex
    /\ pc' = "download_blob"
    /\ UNCHANGED <<args, container, container0, local_files, file_names,
                   matching_file_names, index, dest_copy, copy_status_data,
                   calls, exit_code>>
    /\ UNCHANGED fnVars

\* download_azure_storage_blob_file, and the loop's step to the next blob.
\* The local file is opened for writing before the blob is read, so a failed
\* download leaves it empty.
DownloadBlob ==
    /\ pc = "download_blob"
    /\ IF ~ClientConstructs
           THEN /\ Exit(UNCAUGHT_EXCEPTION)
                /\ UNCHANGED <<local_files, calls, index>>
           ELSE LET local_path == LocalPath(DownloadDestination)
                IN  \E downloaded \in BOOLEAN :
                      /\ downloaded => CurrentSource \in DOMAIN container
                      /\ calls' = Append(calls,
                                      Call("download", CurrentSource, local_path,
                                           IF downloaded THEN "ok" ELSE "raise"))
                      /\ IF downloaded
                             THEN /\ local_files' = Put(local_files, local_path,
                                                        container[CurrentSource])
                                  /\ LoopNext("download_blob")
                             ELSE /\ local_files' = Put(local_files, local_path, Empty)
                                  /\ Exit(UNCAUGHT_EXCEPTION)
                                  /\ UNCHANGED index
    /\ UNCHANGED <<args, container, container0, file_names,
                   matching_file_names, dest_copy, copy_status_data>>
    /\ UNCHANGED fnVars

Next ==
    \/ MoveRegexMain
    \/ MoveExactMain
    \/ MoveStartCopy
    \/ MoveReadStatus
    \/ MoveAbortCopy
    \/ MoveDeleteSource
    \/ MoveReturn
    \/ DeleteRegexMain
    \/ DeleteExactMain
    \/ DeleteBlob
    \/ DownloadRegexMain
    \/ DownloadExactMain
    \/ DownloadBlob

Spec == Init /\ [][Next]_vars

-----------------------------------------------------------------------------
(* Properties of the move: azure_move_blob and the loop of main().         *)

IsMove == args.program = "move"

\* The calls issued for the blob at position i of the batch, in order.
CallsFor(i) == SelectSeq(calls, LAMBDA c : c.idx = i)

\* The three calls of a completed move of the blob at position i.
FullMove(i) ==
    LET cs == CallsFor(i)
    IN  /\ Len(cs) = 3
        /\ cs[1].op = "copy" /\ cs[1].result = "success"
        /\ cs[2].op = "status" /\ cs[2].result = "success"
        /\ cs[3].op = "delete" /\ cs[3].result = "ok"
        /\ \A p \in 1..3 : /\ cs[p].src = matching_file_names[i]
                           /\ cs[p].dst = MoveRegexDestination(matching_file_names[i], i)

\* No object the listing returned under the source folder matches the pattern.
NothingMatches ==
    \A n \in DOMAIN container0 :
        StartsWith(n, SourceFolder) => ~re_search(args.source_file_name, n)

\* C1: in azure_move_blob the delete of the source is issued only after the
\* copy to the same destination was started and its status was read back as
\* "success": every delete call directly follows that status read, which
\* directly follows that copy, and a blob is gone from the container only
\* through such a delete.
C1_DeleteOnlyAfterConfirmedCopy ==
    IsMove =>
        /\ \A p \in 1..Len(calls) :
               calls[p].op = "delete" =>
                   /\ p >= 3
                   /\ calls[p - 2].op = "copy"
                   /\ calls[p - 2].result = "success"
                   /\ calls[p - 2].src = calls[p].src
                   /\ calls[p - 2].idx = calls[p].idx
                   /\ calls[p - 1].op = "status"
                   /\ calls[p - 1].result = "success"
                   /\ calls[p - 1].dst = calls[p - 2].dst
                   /\ calls[p - 1].idx = calls[p].idx
        /\ \A n \in (DOMAIN container0) \ (DOMAIN container) :
               \E p \in 1..Len(calls) : calls[p].op = "delete" /\ calls[p].src = n

\* C1's case: a move has deleted its source.
C1_Witness ==
    /\ IsMove
    /\ \E p \in 1..Len(calls) : calls[p].op = "delete" /\ calls[p].result = "ok"
    /\ DOMAIN container0 \ DOMAIN container # {}

\* C2: a move that ends Succeeded (azure_move_blob returned) leaves the
\* destination in the container and the source out of it, also when the
\* destination is the source; a move that ends Failed (the copy status read is
\* not success and the failure branch ran to its exit) leaves the source in
\* the container, has called abort_copy on the destination and ends the run
\* with the move-failed code.  A run in which a storage call raised ends in
\* neither.
C2_MoveSemantics ==
    IsMove =>
        /\ pc = "returned" /\ calls # <<>> =>
               /\ MoveDestination \in DOMAIN container
               /\ CurrentSource \notin DOMAIN container
        /\ pc = "done" /\ copy_status_data.status \notin {"none", "success"}
               /\ exit_code # UNCAUGHT_EXCEPTION =>
               /\ CurrentSource \in DOMAIN container
               /\ calls[Len(calls)].op = "abort"
               /\ calls[Len(calls)].dst = MoveDestination
               /\ exit_code = EXIT_CODE_AZURE_MOVE_ERROR

\* C3: in a regex_match move the blobs are moved one after the other in the
\* order of the match list: every blob before the current one has had exactly
\* its copy, its status read and its delete, no call is for a blob after the
\* current one, and when the run has ended on the failure of blob k, blob k
\* has had a copy call, is still in the container and has had no successful
\* delete, and blobs k+1..N have had no call at all.
C3_StopOnFirstFailure ==
    IsMove /\ IsRegex /\ index >= 1 =>
        /\ \A i \in 1..(index - 1) : FullMove(i)
        /\ \A p \in 1..Len(calls) : calls[p].idx \in 1..index
        /\ \A p \in 1..(Len(calls) - 1) : calls[p].idx <= calls[p + 1].idx
        /\ pc = "done" /\ exit_code # EXIT_SUCCESS =>
               /\ CallsFor(index) # <<>>
               /\ CallsFor(index)[1].op = "copy"
               /\ matching_file_names[index] \in DOMAIN container
               /\ \A p \in 1..Len(calls) :
                      calls[p].idx = index =>
                          ~(calls[p].op = "delete" /\ calls[p].result = "ok")
               /\ \A i \in (index + 1)..Len(matching_file_names) :
                      CallsFor(i) = <<>>

\* C3's case: three blobs matched and the move of the second failed.
C3_Witness ==
    /\ IsMove /\ IsRegex
    /\ Len(matching_file_names) = 3
    /\ index = 2
    /\ pc = "done"
    /\ exit_code = EXIT_CODE_AZURE_MOVE_ERROR

\* C4: a regex_match move whose pattern matches none of the listed blobs ends
\* with EXIT_CODE_NO_MATCHES_FOUND, has issued no call and has left the
\* container as it was.
C4_NoMatchesNoMutation ==
    IsMove /\ IsRegex /\ pc # "start" /\ exit_code # UNCAUGHT_EXCEPTION
        /\ NothingMatches =>
        /\ pc = "done"
        /\ exit_code = EXIT_CODE_NO_MATCHES_FOUND
        /\ calls = <<>>
        /\ container = container0

\* C4's case: the listing returned blobs and the pattern matched none.
C4_Witness ==
    /\ IsMove /\ IsRegex
    /\ file_names # <<>>
    /\ NothingMatches
    /\ pc = "done"
    /\ exit_code = EXIT_CODE_NO_MATCHES_FOUND

\* C5: a regex_match delete whose pattern matches none of the listed blobs
\* ends with the non-success code EXIT_CODE_NO_MATCHES_FOUND and issues no
\* delete call.
C5_DeleteNoMatchesIsFailure ==
    args.program = "delete" /\ IsRegex /\ pc = "done"
        /\ exit_code # UNCAUGHT_EXCEPTION /\ NothingMatches =>
        /\ exit_code = EXIT_CODE_NO_MATCHES_FOUND
        /\ exit_code # EXIT_SUCCESS
        /\ calls = <<>>

-----------------------------------------------------------------------------
(* Properties of the destination names.                                    *)

\* The destination the program derives for the blob at position i of a
\* regex_match batch.
BatchDestination(i) ==
    IF IsMove
        THEN MoveRegexDestination(matching_file_names[i], i)
        ELSE determine_destination_name(DestinationFolder,
                 args.destination_file_name, matching_file_names[i], i)

\* C6: in a regex_match batch (move or download) of more than one matched
\* source, the destinations derived for positions 1..N are pairwise distinct,
\* with or without --destination-file-name.
C6_DestinationsDistinct ==
    args.program \in {"move", "download"} /\ IsRegex
        /\ Len(matching_file_names) > 1 =>
        \A i, j \in 1..Len(matching_file_names) :
            i # j => BatchDestination(i) # BatchDestination(j)

\* C7: in a regex_match move with --destination-file-name given and more than
\* one match, the destination of the blob at position i is the destination
\* folder combined with the given name carrying ordinal i.
C7_SuppliedNameIsBase ==
    IsMove /\ IsRegex /\ args.destination_file_name # <<>>
        /\ Len(matching_file_names) > 1 =>
        \A i \in 1..Len(matching_file_names) :
            BatchDestination(i) =
                combine_folder_and_file_name(
                    DestinationFolder,
                    enumerate_destination_file_name(args.destination_file_name, i))

\* The destination file name without ordinal: the given name, or the
\* basename of the source.
PlainName(src) ==
    IF args.destination_file_name # <<>>
        THEN args.destination_file_name
        ELSE basename(src)

\* C9: when a regex_match selection (move or download) has exactly one
\* member, its destination carries no ordinal: it is the destination folder
\* combined with the given destination file name, or with the basename of the
\* source when none is given.
C9_SingleMatchNoOrdinal ==
    args.program \in {"move", "download"} /\ IsRegex
        /\ Len(matching_file_names) = 1 =>
        BatchDestination(1) =
            combine_folder_and_file_name(
                DestinationFolder, PlainName(matching_file_names[1]))

-----------------------------------------------------------------------------
(* Properties of find_matching_files.                                      *)

\* The position of name n in sequence s (n occurs in s).
PositionIn(s, n) == CHOOSE i \in 1..Len(s) : s[i] = n

\* C10: the match list holds exactly the listed names in which the pattern
\* has a match somewhere (re.search), each once, in the order of the listing.
C10_MatchesExactlyInOrder ==
    IsRegex =>
        /\ \A n \in Range(matching_file_names) : n \in Range(file_names)
        /\ \A i \in 1..Len(file_names) :
               re_search(args.source_file_name, file_names[i])
                   <=> file_names[i] \in Range(matching_file_names)
        /\ \A i, j \in 1..Len(matching_file_names) :
               i < j => /\ matching_file_names[i] # matching_file_names[j]
                        /\ PositionIn(file_names, matching_file_names[i])
                               < PositionIn(file_names, matching_file_names[j])

\* C10's case: a listing of three names of which the pattern matches the
\* first and the last, not the one between them.
C10_Witness ==
    /\ IsRegex
    /\ Len(file_names) = 3
    /\ matching_file_names = <<file_names[1], file_names[3]>>
    /\ ~re_search(args.source_file_name, file_names[2])

-----------------------------------------------------------------------------
(* Properties of enumerate_destination_file_name.                          *)

Called == fn_result # NotCalled

\* The positions of the dots of a name.
Dots(name) == {i \in 1..Len(name) : name[i] = "."}

FirstDot(name) == CHOOSE i \in Dots(name) : \A j \in Dots(name) : i <= j

LastDot(name) == CHOOSE i \in Dots(name) : \A j \in Dots(name) : j <= i

\* name with "_<number>" inserted before position k (k = Len(name) + 1: at
\* the end).
InsertOrdinal(name, number, k) ==
    SubSeq(name, 1, k - 1) \o <<"_">> \o IntToStr(number)
        \o SubSeq(name, k, Len(name))

\* C8 as stated: "_i" goes immediately before the LAST '.' of a name with a
\* dot, and to the end of a name without one.
C8_BeforeLastDot ==
    Called =>
        fn_result =
            IF Dots(fn_name) # {}
                THEN InsertOrdinal(fn_name, fn_number, LastDot(fn_name))
                ELSE InsertOrdinal(fn_name, fn_number, Len(fn_name) + 1)

\* C8 as amended: "_i" goes immediately before the FIRST '.' of a name with a
\* dot (so a.tar.gz gives a_1.tar.gz), and to the end of a name without one.
C8_BeforeFirstDot ==
    Called =>
        fn_result =
            IF Dots(fn_name) # {}
                THEN InsertOrdinal(fn_name, fn_number, FirstDot(fn_name))
                ELSE InsertOrdinal(fn_name, fn_number, Len(fn_name) + 1)

\* C8's case: the function has been applied to a name like a.a. (two dots,
\* apart) and a number of two digits.
C8_Witness ==
    /\ Called
    /\ fn_name # <<>> /\ fn_name[1] = "a"
    /\ Cardinality(Dots(fn_name)) = 2
    /\ FirstDot(fn_name) + 1 < LastDot(fn_name)
    /\ fn_number >= 10

-----------------------------------------------------------------------------
(* Properties of the failures of a move.                                   *)

\* C11: a move run whose storage client cannot be built ends with
\* EXIT_CODE_INCORRECT_CREDENTIALS, which is not the move-failed code, and has
\* issued no call and changed no blob before it ends.
C11_CredentialFailureReported ==
    IsMove /\ ~ClientConstructs /\ pc = "done" =>
        /\ exit_code = EXIT_CODE_INCORRECT_CREDENTIALS
        /\ exit_code # EXIT_CODE_AZURE_MOVE_ERROR
        /\ calls = <<>>
        /\ container = container0

\* C12: when the delete of the source raises after the copy was confirmed,
\* the source and the destination are both in the container, the destination
\* holding what the source holds (they are one blob when the destination is
\* the source); the run ends there with the uncaught exception, not with
\* success, and that delete is the last call: no blob after the current one
\* is copied or deleted.
C12_FailedDeleteKeepsBoth ==
    IsMove =>
        \A p \in 1..Len(calls) :
            calls[p].op = "delete" /\ calls[p].result = "raise" =>
                /\ p >= 3
                /\ calls[p - 1].op = "status" /\ calls[p - 1].result = "success"
                /\ calls[p].src \in DOMAIN container
                /\ calls[p].dst \in DOMAIN container
                /\ container[calls[p].dst] = container[calls[p].src]
                /\ pc = "done"
                /\ exit_code = UNCAUGHT_EXCEPTION
                /\ exit_code # EXIT_SUCCESS
                /\ p = Len(calls)
                /\ calls[p].idx = index
                /\ \A q \in 1..Len(calls) : calls[q].idx <= index

\* C12's case: in a batch of three the delete of the first source raised,
\* with a destination that is another blob than the source.
C12_Witness ==
    /\ IsMove /\ IsRegex
    /\ Len(matching_file_names) = 3
    /\ index = 1
    /\ calls # <<>>
    /\ calls[Len(calls)].op = "delete"
    /\ calls[Len(calls)].result = "raise"
    /\ calls[Len(calls)].src # calls[Len(calls)].dst

-----------------------------------------------------------------------------
(* Properties of the delete.                                               *)

\* The code the specification names for a failed delete.  delete_file.py
\* passes no code to sys.exit and does not import exit_codes.
EXIT_CODE_GENERIC_DELETE_FAILED == "GENERIC_DELETE_FAILED"

\* C13: in a regex_match delete the blobs are deleted one after the other in
\* the order of the match list, one delete call each: every blob before the
\* current one has had its one delete and is gone, a run that ended in
\* success has called delete once for every blob, and a run that ended on the
\* failure of the delete of blob k has issued no call for blobs k+1..N and
\* ends with the code GENERIC_DELETE_FAILED.
C13_DeleteStopsWithCode ==
    args.program = "delete" /\ IsRegex /\ index >= 1 =>
        /\ \A i \in 1..Len(matching_file_names) : Len(CallsFor(i)) <= 1
        /\ \A i \in 1..(index - 1) :
               /\ Len(CallsFor(i)) = 1
               /\ CallsFor(i)[1].op = "delete"
               /\ CallsFor(i)[1].src = matching_file_names[i]
               /\ CallsFor(i)[1].result = "ok"
               /\ matching_file_names[i] \notin DOMAIN container
        /\ pc = "done" /\ exit_code = EXIT_SUCCESS =>
               \A i \in 1..Len(matching_file_names) : Len(CallsFor(i)) = 1
        /\ pc = "done" /\ exit_code # EXIT_SUCCESS =>
               /\ \A i \in (index + 1)..Len(matching_file_names) :
                      CallsFor(i) = <<>>
               /\ exit_code = EXIT_CODE_GENERIC_DELETE_FAILED

-----------------------------------------------------------------------------
(* Properties of the content of a moved batch.                             *)

\* The content blob n had when the run started is stored under n or under dst.
StoredUnder(n, dst) ==
    \/ n \in DOMAIN container /\ container[n] = container0[n]
    \/ dst \in DOMAIN container /\ container[dst] = container0[n]

\* C14: a move never loses content: in every state of a move, the content of
\* every blob of the match set (regex_match: the match list; exact_match: the
\* source, when it exists) is stored under its source name or under the
\* destination derived for it.
C14_NoContentLost ==
    IsMove =>
        /\ IsRegex =>
               \A i \in 1..Len(matching_file_names) :
                   StoredUnder(matching_file_names[i],
                               MoveRegexDestination(matching_file_names[i], i))
        /\ ~IsRegex /\ SourceFullPath \in DOMAIN container0 =>
               StoredUnder(SourceFullPath, MoveExactDestination)

=============================================================================
